---- MODULE Spec2Model ----
(***************************************************************************)
(* Streaming chat pipeline of the repository:                              *)
(*   - practice-02 REST API: stream_ai_response frames LLM chunks as       *)
(*     Server-Sent Events;                                                 *)
(*   - practice-03 frontend: query_llm / query_llm_streaming consume the   *)
(*     event stream line by line, and the Streamlit script keeps the       *)
(*     chat history in st.session_state.messages.                          *)
(* Text is a sequence of one-character strings; the wire carries bytes,    *)
(* the UTF-8 encoding of text.                                             *)
(***************************************************************************)
EXTENDS Integers, Sequences, FiniteSets, TLC

(***************************************************************************)
(* Bounds of the model.                                                    *)
(***************************************************************************)
MaxLines == 3
MaxChunks == 2
MaxMsgs == 4

(***************************************************************************)
(* Program constants.                                                      *)
(***************************************************************************)
HTTP_OK == 200
PrefixLen == 6

DataPrefix == <<"d", "a", "t", "a", ":", " ">>
Cursor == <<"CURSOR">>
NL == "\n"
ErrOpen == <<"[", "E", "R", "R", "O", "R", ":", " ">>
ErrClose == <<"]">>

(***************************************************************************)
(* Generic sequence helpers.                                               *)
(***************************************************************************)
RECURSIVE Flatten(_)
Flatten(ss) == IF ss = <<>> THEN <<>> ELSE Head(ss) \o Flatten(Tail(ss))

IsPrefixOf(s, t) == Len(s) <= Len(t) /\ SubSeq(t, 1, Len(s)) = s

SeqsUpTo(S, n) == UNION {[1..k -> S] : k \in 0..n}

(***************************************************************************)
(* UTF-8.  ASCII characters are one byte (written as the character); the   *)
(* one non-ASCII character of the alphabet, e-acute, is two bytes.         *)
(***************************************************************************)
EAcute == "e'"
ByteC3 == "xC3"
ByteA9 == "xA9"

RECURSIVE Utf8Encode(_)
Utf8Encode(text) ==
    IF text = <<>> THEN <<>>
    ELSE (IF Head(text) = EAcute THEN <<ByteC3, ByteA9>> ELSE <<Head(text)>>)
         \o Utf8Encode(Tail(text))

\* Whether bytes is well-formed UTF-8.
RECURSIVE Utf8Valid(_)
Utf8Valid(bytes) ==
    IF bytes = <<>> THEN TRUE
    ELSE IF Head(bytes) = ByteC3
         THEN Len(bytes) >= 2 /\ bytes[2] = ByteA9
              /\ Utf8Valid(SubSeq(bytes, 3, Len(bytes)))
         ELSE Head(bytes) # ByteA9 /\ Utf8Valid(Tail(bytes))

\* The characters of well-formed bytes.
RECURSIVE Utf8Chars(_)
Utf8Chars(bytes) ==
    IF bytes = <<>> THEN <<>>
    ELSE IF Head(bytes) = ByteC3
         THEN <<EAcute>> \o Utf8Chars(SubSeq(bytes, 3, Len(bytes)))
         ELSE <<Head(bytes)>> \o Utf8Chars(Tail(bytes))

\* bytes.decode("utf-8"): [ok |-> FALSE] stands for UnicodeDecodeError.
Utf8Decode(bytes) ==
    IF Utf8Valid(bytes) THEN [ok |-> TRUE, text |-> Utf8Chars(bytes)]
    ELSE [ok |-> FALSE, text |-> <<>>]

(***************************************************************************)
(* State.                                                                  *)
(*  frontend, one call of query_llm:                                       *)
(*   pc            position in query_llm / query_llm_streaming             *)
(*   use_streaming the sidebar checkbox handed to query_llm                *)
(*   transport     what requests.post / response.iter_lines will do        *)
(*   pos           number of lines iter_lines has yielded                  *)
(*   result        the local accumulated text                              *)
(*   updates       arguments of placeholder.markdown, in call order        *)
(*   errors        arguments of st.error, in call order                    *)
(*   ret           the value returned to the caller                        *)
(*   returns       number of return statements executed                    *)
(*  frontend, Streamlit script:                                            *)
(*   messages      st.session_state.messages                               *)
(*   prompt        the submitted prompt of the running script              *)
(*   backend_healthy  the sidebar's health check of the running script     *)
(*   recheck       the second health check of the chat input handler       *)
(*   event         the widget that triggered the running script            *)
(*  REST API, one call of stream_ai_response:                              *)
(*   ppc           position in the generator                               *)
(*   llm           what the LLM stream will do                             *)
(*   cidx          number of chunks the generator has taken                *)
(*   emitted       the frames yielded so far                               *)
(***************************************************************************)
VARIABLES pc, use_streaming, transport, pos, result, updates, errors, ret,
          returns, messages, prompt, backend_healthy, recheck, event,
          ppc, llm, cidx, emitted

consumerVars == <<pc, use_streaming, transport, pos, result, updates, errors,
                  ret, returns>>
chatVars == <<messages, prompt, backend_healthy, recheck, event>>
producerVars == <<ppc, llm, cidx, emitted>>
vars == <<pc, use_streaming, transport, pos, result, updates, errors, ret,
          returns, messages, prompt, backend_healthy, recheck, event,
          ppc, llm, cidx, emitted>>

None == [none |-> TRUE, text |-> <<>>]
Str(t) == [none |-> FALSE, text |-> t]

ExcMsgs == {"peer closed", "timed out"}

\* What the HTTP peer does: requests.post raises, or answers with a status;
\* a 200 answer carries lines, and iter_lines either ends cleanly after
\* them or raises after them.
NoTransport == [post |-> "none", code |-> 0, lines |-> <<>>, end |-> "clean",
                msg |-> "peer closed"]

TransportsOver(LineSet, n) ==
    {[post |-> "raise", code |-> 0, lines |-> <<>>, end |-> "clean", msg |-> m] :
        m \in ExcMsgs}
    \cup {[post |-> "ok", code |-> 500, lines |-> <<>>, end |-> "clean",
           msg |-> "peer closed"]}
    \cup {[post |-> "ok", code |-> HTTP_OK, lines |-> ls, end |-> "clean",
           msg |-> "peer closed"] : ls \in SeqsUpTo(LineSet, n)}
    \cup {[post |-> "ok", code |-> HTTP_OK, lines |-> ls, end |-> "raise",
           msg |-> m] : ls \in SeqsUpTo(LineSet, n), m \in ExcMsgs}

\* The lines of text the event stream is drawn from.
BlankLine == <<>>
EmptyData == DataPrefix
DataA == DataPrefix \o <<"a">>
DataE == DataPrefix \o <<EAcute>>
Keepalive == <<":", " ", "k">>
NoSpace == <<"d", "a", "t", "a", ":", "a">>
ErrorText == ErrOpen \o <<"m">> \o ErrClose
ErrorFrameLine == DataPrefix \o ErrorText

TextLines == {BlankLine, EmptyData, DataA, DataE, Keepalive, NoSpace,
              ErrorFrameLine}
WireLines == {Utf8Encode(l) : l \in TextLines}

(***************************************************************************)
(* query_llm_streaming, line by line.                                      *)
(***************************************************************************)
\* A prefix test that forgets the prefix's last character (the space).
StartsWith_ShortPrefix(s, prefix) ==
    IsPrefixOf(SubSeq(prefix, 1, Len(prefix) - 1), s)

\* str.startswith
StartsWith(s, prefix) == IsPrefixOf(prefix, s)

\* A slice that starts one character early and keeps the prefix's space.
ChunkOf_OffByOne(line_str) == SubSeq(line_str, PrefixLen, Len(line_str))

\* line_str[6:]
ChunkOf(line_str) == SubSeq(line_str, PrefixLen + 1, Len(line_str))

StreamingFailed(m) == [what |-> "Streaming failed", detail |-> m]
StreamingError(code) == [what |-> "Streaming error", detail |-> ToString(code)]

\* A handler that reports the error and raises it again.
Except_Reraise(m) ==
    /\ errors' = Append(errors, StreamingFailed(m))
    /\ pc' = "raised"
    /\ UNCHANGED <<ret, returns>>

\* A handler that hands back what was accumulated.
Except_ReturnPartial(m) ==
    /\ errors' = Append(errors, StreamingFailed(m))
    /\ ret' = Str(result)
    /\ returns' = returns + 1
    /\ pc' = "done"

\* except Exception as e: st.error(...); return None
Except(m) ==
    /\ errors' = Append(errors, StreamingFailed(m))
    /\ ret' = None
    /\ returns' = returns + 1
    /\ pc' = "done"

\* A loop body that renders only when the chunk is not empty.
AcceptChunk_SkipEmpty(chunk) ==
    IF chunk = <<>>
    THEN UNCHANGED <<result, updates, errors, ret, returns, pc>>
    ELSE /\ result' = result \o chunk
         /\ updates' = Append(updates, result' \o Cursor)
         /\ UNCHANGED <<errors, ret, returns, pc>>

\* A loop body that turns the producer's error frame into a failure.
AcceptChunk_InterceptError(chunk) ==
    IF IsPrefixOf(ErrOpen, chunk)
    THEN Except(chunk) /\ UNCHANGED <<result, updates>>
    ELSE /\ result' = result \o chunk
         /\ updates' = Append(updates, result' \o Cursor)
         /\ UNCHANGED <<errors, ret, returns, pc>>

\* result += chunk; placeholder.markdown(result + cursor)
AcceptChunk(chunk) ==
    /\ result' = result \o chunk
    /\ updates' = Append(updates, result' \o Cursor)
    /\ UNCHANGED <<errors, ret, returns, pc>>

\* query_llm with use_streaming: picks the endpoint and calls
\* query_llm_streaming; the peer's behaviour is fixed from here on.
QueryLLMStreaming(T) ==
    /\ pc = "call"
    /\ use_streaming
    /\ \E t \in T : transport' = t
    /\ pos' = 0
    /\ result' = <<>>
    /\ updates' = <<>>
    /\ errors' = <<>>
    /\ ret' = None
    /\ returns' = 0
    /\ pc' = "post"
    /\ UNCHANGED <<use_streaming, chatVars, producerVars>>

PostRaise ==
    /\ pc = "post"
    /\ transport.post = "raise"
    /\ Except(transport.msg)
    /\ UNCHANGED <<use_streaming, transport, pos, result, updates, chatVars,
                   producerVars>>

PostOk ==
    /\ pc = "post"
    /\ transport.post = "ok"
    /\ transport.code = HTTP_OK
    /\ result' = <<>>
    /\ pc' = "iter"
    /\ UNCHANGED <<use_streaming, transport, pos, updates, errors, ret,
                   returns, chatVars, producerVars>>

PostNon200 ==
    /\ pc = "post"
    /\ transport.post = "ok"
    /\ transport.code # HTTP_OK
    /\ errors' = Append(errors, StreamingError(transport.code))
    /\ ret' = None
    /\ returns' = returns + 1
    /\ pc' = "done"
    /\ UNCHANGED <<use_streaming, transport, pos, result, updates, chatVars,
                   producerVars>>

\* One iteration of the for loop over response.iter_lines().
IterLine ==
    /\ pc = "iter"
    /\ pos < Len(transport.lines)
    /\ pos' = pos + 1
    /\ LET line == transport.lines[pos + 1]
           d == Utf8Decode(line)
       IN IF line = <<>>
          THEN UNCHANGED <<result, updates, errors, ret, returns, pc>>
          ELSE IF ~d.ok
          THEN Except("UnicodeDecodeError") /\ UNCHANGED <<result, updates>>
          ELSE IF StartsWith(d.text, DataPrefix)
          THEN AcceptChunk(ChunkOf(d.text))
          ELSE UNCHANGED <<result, updates, errors, ret, returns, pc>>
    /\ UNCHANGED <<use_streaming, transport, chatVars, producerVars>>

\* iter_lines raises (connection reset, read timeout) instead of yielding.
IterRaise ==
    /\ pc = "iter"
    /\ pos = Len(transport.lines)
    /\ transport.end = "raise"
    /\ Except(transport.msg)
    /\ UNCHANGED <<use_streaming, transport, pos, result, updates, chatVars,
                   producerVars>>

\* An end of loop that returns without the final render.
IterEnd_NoFinalRender ==
    /\ pc = "iter"
    /\ pos = Len(transport.lines)
    /\ transport.end = "clean"
    /\ ret' = Str(result)
    /\ returns' = returns + 1
    /\ pc' = "done"
    /\ UNCHANGED <<use_streaming, transport, pos, result, updates, errors,
                   chatVars, producerVars>>

\* iter_lines is exhausted: placeholder.markdown(result); return result
IterEnd ==
    /\ pc = "iter"
    /\ pos = Len(transport.lines)
    /\ transport.end = "clean"
    /\ updates' = Append(updates, result)
    /\ ret' = Str(result)
    /\ returns' = returns + 1
    /\ pc' = "done"
    /\ UNCHANGED <<use_streaming, transport, pos, result, errors, chatVars,
                   producerVars>>

Streaming == PostRaise \/ PostOk \/ PostNon200 \/ IterLine \/ IterRaise \/ IterEnd

NoLLM == [chunks |-> <<>>, end |-> "clean", msg |-> "peer closed"]

ConsumerInit ==
    /\ use_streaming = TRUE
    /\ transport = NoTransport
    /\ pos = 0
    /\ result = <<>>
    /\ updates = <<>>
    /\ errors = <<>>
    /\ ret = None
    /\ returns = 0

ChatVarsInit ==
    /\ messages = <<>>
    /\ prompt = <<>>
    /\ backend_healthy = TRUE
    /\ recheck = "skipped"
    /\ event = "none"

ProducerInit ==
    /\ ppc = "idle"
    /\ llm = NoLLM
    /\ cidx = 0
    /\ emitted = <<>>

\* query_llm(prompt, use_streaming=True) is about to run.
Init ==
    /\ pc = "call"
    /\ ConsumerInit
    /\ ChatVarsInit
    /\ ProducerInit

Next ==
    \/ QueryLLMStreaming(TransportsOver(WireLines, MaxLines))
    \/ PostRaise
    \/ PostOk
    \/ PostNon200
    \/ IterLine
    \/ IterRaise
    \/ IterEnd

Spec == Init /\ [][Next]_vars

(***************************************************************************)
(* REST API: stream_ai_response, the generator behind POST /query/stream.  *)
(***************************************************************************)
ErrTexts == {<<"m">>, <<"t", "o">>}

\* chunk.choices[0].delta.content: None, "" or a word; words may hold
\* newlines and non-ASCII characters.
Contents == {None, Str(<<>>), Str(<<"a">>), Str(<<EAcute>>), Str(<<NL>>),
             Str(<<"a", NL, "b">>)}

\* What the LLM does: create raises, or the stream delivers chunks and then
\* ends or raises.
LLMs ==
    {[create |-> "raise", chunks |-> <<>>, end |-> "clean", msg |-> m] :
        m \in ErrTexts}
    \cup {[create |-> "ok", chunks |-> cs, end |-> "clean", msg |-> <<"m">>] :
            cs \in SeqsUpTo(Contents, MaxChunks)}
    \cup {[create |-> "ok", chunks |-> cs, end |-> "raise", msg |-> m] :
            cs \in SeqsUpTo(Contents, MaxChunks), m \in ErrTexts}

\* f"data: {word}\n\n"
DataFrame(word) == DataPrefix \o word \o <<NL, NL>>

\* "\n\n"
CompletionFrame == <<NL, NL>>

\* f"data: [ERROR: {str(error)}]\n\n"
ErrorFrame(m) == DataPrefix \o ErrOpen \o m \o ErrClose \o <<NL, NL>>

\* except Exception as error: yield the error frame; the generator ends.
ProducerExcept(m) ==
    /\ emitted' = Append(emitted, ErrorFrame(m))
    /\ ppc' = "done"

\* ask_ai_streaming: the endpoint starts the generator for the request the
\* frontend has posted.
AskAiStreaming ==
    /\ pc = "post"
    /\ transport.post = "none"
    /\ ppc = "idle"
    /\ \E l \in LLMs : llm' = l
    /\ cidx' = 0
    /\ emitted' = <<>>
    /\ ppc' = "create"
    /\ UNCHANGED <<consumerVars, chatVars>>

CreateOk ==
    /\ ppc = "create"
    /\ llm.create = "ok"
    /\ ppc' = "loop"
    /\ UNCHANGED <<llm, cidx, emitted, consumerVars, chatVars>>

CreateRaise ==
    /\ ppc = "create"
    /\ llm.create = "raise"
    /\ ProducerExcept(llm.msg)
    /\ UNCHANGED <<llm, cidx, consumerVars, chatVars>>

\* word = content or ""
WordOf(content) == IF content.none THEN <<>> ELSE content.text

\* A loop body that frames every chunk, empty ones included.
EmitWord_NoGuard(word) == emitted' = Append(emitted, DataFrame(word))

\* if word: yield the data frame
EmitWord(word) ==
    IF word # <<>>
    THEN emitted' = Append(emitted, DataFrame(word))
    ELSE UNCHANGED emitted

\* One iteration of the for loop over the LLM stream.
NextChunk ==
    /\ ppc = "loop"
    /\ cidx < Len(llm.chunks)
    /\ cidx' = cidx + 1
    /\ EmitWord(WordOf(llm.chunks[cidx + 1]))
    /\ UNCHANGED <<ppc, llm, consumerVars, chatVars>>

StreamRaise ==
    /\ ppc = "loop"
    /\ cidx = Len(llm.chunks)
    /\ llm.end = "raise"
    /\ ProducerExcept(llm.msg)
    /\ UNCHANGED <<llm, cidx, consumerVars, chatVars>>

\* The LLM stream is exhausted: yield the completion frame.
StreamEnd ==
    /\ ppc = "loop"
    /\ cidx = Len(llm.chunks)
    /\ llm.end = "clean"
    /\ emitted' = Append(emitted, CompletionFrame)
    /\ ppc' = "done"
    /\ UNCHANGED <<llm, cidx, consumerVars, chatVars>>

(***************************************************************************)
(* The HTTP hop.  StreamingResponse sends each frame UTF-8 encoded with    *)
(* status 200; response.iter_lines() cuts the byte stream at newlines, as  *)
(* bytes.splitlines does (no line for a trailing newline).  The single     *)
(* reader sees the frames in the order they were yielded, so the lines are *)
(* those of the concatenated stream.                                       *)
(***************************************************************************)
RECURSIVE SplitLines(_, _)
SplitLines(bytes, cur) ==
    IF bytes = <<>> THEN (IF cur = <<>> THEN <<>> ELSE <<cur>>)
    ELSE IF Head(bytes) = NL THEN <<cur>> \o SplitLines(Tail(bytes), <<>>)
    ELSE SplitLines(Tail(bytes), Append(cur, Head(bytes)))

IterLines(frames) == SplitLines(Utf8Encode(Flatten(frames)), <<>>)

Respond ==
    /\ ppc = "done"
    /\ pc = "post"
    /\ transport.post = "none"
    /\ transport' = [post |-> "ok", code |-> HTTP_OK, lines |-> IterLines(emitted),
                     end |-> "clean", msg |-> "peer closed"]
    /\ UNCHANGED <<pc, use_streaming, pos, result, updates, errors, ret,
                   returns, chatVars, producerVars>>

PipeNext ==
    \/ QueryLLMStreaming({NoTransport})
    \/ AskAiStreaming
    \/ CreateOk
    \/ CreateRaise
    \/ NextChunk
    \/ StreamRaise
    \/ StreamEnd
    \/ Respond
    \/ PostOk
    \/ IterLine
    \/ IterEnd

PipeSpec == Init /\ [][PipeNext]_vars

(***************************************************************************)
(* Frontend: the Streamlit script.  Every widget event runs the script     *)
(* from the top; st.session_state.messages survives between runs.  The     *)
(* timestamp of a message takes no part in any decision and is left out.   *)
(***************************************************************************)
Prompts == {<<"p">>, <<"q">>}

UserMessage(p) == [role |-> "user", content |-> p]
AssistantMessage(r) == [role |-> "assistant", content |-> r]

NoResponse == <<"No response received">>
Answers == {<<>>, <<"a">>, NoResponse}

ChatLines == {Utf8Encode(DataA), Utf8Encode(Keepalive)}

\* if "messages" not in st.session_state: st.session_state.messages = []
ChatInit ==
    /\ pc = "idle"
    /\ ConsumerInit
    /\ ChatVarsInit
    /\ ProducerInit

\* The locals of query_llm are gone once the script has used its result.
ForgetCall ==
    /\ transport' = NoTransport
    /\ pos' = 0
    /\ result' = <<>>
    /\ updates' = <<>>
    /\ ret' = None
    /\ returns' = 0

\* The "Clear Chat History" button: the sidebar runs (health check
\* included), the history is emptied and the script reruns.
ClearChat ==
    /\ pc = "idle"
    /\ event' = "clear"
    /\ \E h \in BOOLEAN : backend_healthy' = h
    /\ recheck' = "skipped"
    /\ messages' = <<>>
    /\ errors' = <<>>
    /\ UNCHANGED <<pc, use_streaming, transport, pos, result, updates, ret,
                   returns, prompt, producerVars>>

\* st.chat_input delivers a prompt: the sidebar runs (health check h1 and
\* the streaming checkbox), then the chat input handler up to the call of
\* query_llm; h2 is the handler's own health check, made only when h1 failed.
ChatSubmit ==
    /\ pc = "idle"
    /\ Len(messages) + 2 <= MaxMsgs
    /\ event' = "submit"
    /\ \E p \in Prompts, h1 \in BOOLEAN, h2 \in BOOLEAN, us \in BOOLEAN :
          /\ prompt' = p
          /\ backend_healthy' = h1
          /\ recheck' = (IF h1 THEN "skipped" ELSE IF h2 THEN "up" ELSE "down")
          /\ use_streaming' = us
          /\ IF ~h1 /\ ~h2
             THEN /\ errors' = <<[what |-> "Cannot connect to backend",
                                  detail |-> "down"]>>
                  /\ UNCHANGED <<messages, pc>>
             ELSE /\ messages' = Append(messages, UserMessage(p))
                  /\ errors' = <<>>
                  /\ pc' = "call"
    /\ UNCHANGED <<transport, pos, result, updates, ret, returns, producerVars>>

\* query_llm without streaming: query_llm_regular, whole.  The post raises,
\* or the backend answers 200 with a body (no "answer" key gives the
\* default text), or it answers an error status.
QueryLLMRegular ==
    /\ pc = "call"
    /\ ~use_streaming
    /\ \/ \E m \in ExcMsgs :
             /\ errors' = <<[what |-> "Failed to parse response", detail |-> m]>>
             /\ ret' = None
       \/ \E a \in Answers :
             /\ errors' = <<>>
             /\ ret' = Str(a)
       \/ /\ errors' = <<[what |-> "Backend error", detail |-> ToString(500)]>>
          /\ ret' = None
    /\ returns' = 1
    /\ pc' = "done"
    /\ UNCHANGED <<use_streaming, transport, pos, result, updates, chatVars,
                   producerVars>>

\* A handler that records whatever query_llm returned.
ChatReply_NoCheck ==
    /\ pc = "done"
    /\ messages' = Append(messages, AssistantMessage(ret.text))
    /\ ForgetCall
    /\ pc' = "idle"
    /\ UNCHANGED <<use_streaming, errors, prompt, backend_healthy, recheck,
                   event, producerVars>>

\* if response: append the assistant message.  None and "" are falsy.
ChatReply ==
    /\ pc = "done"
    /\ IF ~ret.none /\ ret.text # <<>>
       THEN messages' = Append(messages, AssistantMessage(ret.text))
       ELSE UNCHANGED messages
    /\ ForgetCall
    /\ pc' = "idle"
    /\ UNCHANGED <<use_streaming, errors, prompt, backend_healthy, recheck,
                   event, producerVars>>

ChatNext ==
    \/ ClearChat
    \/ ChatSubmit
    \/ QueryLLMStreaming(TransportsOver(ChatLines, MaxLines))
    \/ QueryLLMRegular
    \/ PostRaise
    \/ PostOk
    \/ PostNon200
    \/ IterLine
    \/ IterRaise
    \/ IterEnd
    \/ ChatReply

ChatSpec == ChatInit /\ [][ChatNext]_vars

(***************************************************************************)
(* The event stream as the claims speak of it: the text lines delivered so *)
(* far, the data lines among them and their remainders.                    *)
(***************************************************************************)
TextOf(bytes) == Utf8Decode(bytes).text

Delivered == [i \in 1..pos |-> TextOf(transport.lines[i])]

AllLines == [i \in 1..Len(transport.lines) |-> TextOf(transport.lines[i])]

HasDataPrefix(l) ==
    /\ Len(l) >= Len(DataPrefix)
    /\ \A i \in 1..Len(DataPrefix) : l[i] = DataPrefix[i]

Remainder(l) == [i \in 1..(Len(l) - Len(DataPrefix)) |-> l[i + Len(DataPrefix)]]

\* The remainders of the data lines of ls, in order (empty ones included).
RECURSIVE Remainders(_)
Remainders(ls) ==
    IF ls = <<>> THEN <<>>
    ELSE (IF HasDataPrefix(Head(ls)) THEN <<Remainder(Head(ls))>> ELSE <<>>)
         \o Remainders(Tail(ls))

\* The non-empty fragments of ls, in order.
RECURSIVE Fragments(_)
Fragments(ls) ==
    IF ls = <<>> THEN <<>>
    ELSE (IF HasDataPrefix(Head(ls)) /\ Remainder(Head(ls)) # <<>>
          THEN <<Remainder(Head(ls))>> ELSE <<>>)
         \o Fragments(Tail(ls))

CleanEnd ==
    /\ pc = "done"
    /\ transport.post = "ok"
    /\ transport.code = HTTP_OK
    /\ transport.end = "clean"

Raised ==
    /\ pc = "done"
    /\ \/ transport.post = "raise"
       \/ transport.post = "ok" /\ transport.code = HTTP_OK /\ transport.end = "raise"

\* This step is the loop body run on the text line l.
Processes(l) ==
    /\ pc = "iter"
    /\ pos < Len(transport.lines)
    /\ pos' = pos + 1
    /\ TextOf(transport.lines[pos + 1]) = l

(***************************************************************************)
(* C1: when the transport ends cleanly, query_llm_streaming returns a      *)
(* string, the concatenation in delivery order of the non-empty remainders *)
(* of the lines starting with "data: ", with no separator and no cursor    *)
(* glyph; the last thing displayed is that text.                           *)
(***************************************************************************)
C1_CompleteText ==
    CleanEnd =>
        /\ ~ret.none
        /\ ret.text = Flatten(Fragments(AllLines))
        /\ updates[Len(updates)] = ret.text

C1_Witness ==
    /\ CleanEnd
    /\ Len(Fragments(AllLines)) >= 2
    /\ \E i \in 1..Len(AllLines) : AllLines[i] = BlankLine
    /\ ret.text = Flatten(Fragments(AllLines))

(***************************************************************************)
(* C2 as stated: after the transport raises, the caller is handed the text *)
(* accumulated up to the failure together with the error's message.        *)
(***************************************************************************)
C2_Original ==
    Raised =>
        /\ ~ret.none
        /\ ret.text = Flatten(Fragments(Delivered))
        /\ errors = <<StreamingFailed(transport.msg)>>

(***************************************************************************)
(* C2 amended: after the transport raises (on the first interaction or     *)
(* after fragments f1..fk), query_llm_streaming returns None; the error's  *)
(* message is reported once through st.error as "Streaming failed: ...";   *)
(* the text f1+...+fk was accumulated in the local result and shown on the *)
(* placeholder but is not handed to the caller.                            *)
(***************************************************************************)
C2_Amended ==
    Raised =>
        /\ ret = None
        /\ returns = 1
        /\ errors = <<StreamingFailed(transport.msg)>>
        /\ result = Flatten(Fragments(Delivered))
        /\ Len(updates) = Len(Remainders(Delivered))
        /\ (updates # <<>> => updates[Len(updates)] = result \o Cursor)

C2_Witness ==
    /\ Raised
    /\ transport.end = "raise"
    /\ Len(Fragments(Delivered)) >= 2
    /\ ret = None

(***************************************************************************)
(* C3 as stated: a line that is exactly "data: " leaves the accumulated    *)
(* text unchanged and does not invoke the display update hook.             *)
(***************************************************************************)
C3_Original ==
    [][Processes(EmptyData) => (result' = result /\ updates' = updates)]_vars

(***************************************************************************)
(* C3 amended: a line that is exactly "data: " leaves the accumulated text *)
(* unchanged and is not a terminator (the loop goes on, nothing is         *)
(* returned or reported), but the display update hook is invoked once for  *)
(* it, with the unchanged text followed by the cursor glyph.               *)
(***************************************************************************)
C3_Amended ==
    [][Processes(EmptyData) =>
          /\ result' = result
          /\ updates' = Append(updates, result \o Cursor)
          /\ pc' = "iter"
          /\ UNCHANGED <<errors, ret, returns>>]_vars

C3_Witness ==
    /\ pc = "iter"
    /\ pos >= 2
    /\ Delivered[pos] = EmptyData
    /\ result # <<>>
    /\ Len(updates) = pos
    /\ updates[pos] = updates[pos - 1]

C5_Original ==
    CleanEnd =>
        /\ Len(updates) = Len(Fragments(AllLines))
        /\ \A i \in 1..(Len(updates) - 1) :
              /\ IsPrefixOf(updates[i], updates[i + 1])
              /\ updates[i] # updates[i + 1]
        /\ updates # <<>> => updates[Len(updates)] = ret.text

(***************************************************************************)
(* C5 amended: over one request, the hook is invoked once per delivered    *)
(* line that starts with "data: " (an empty remainder included), in        *)
(* delivery order, each time with the text accumulated so far followed by  *)
(* the cursor glyph; the accumulated texts grow by prefix (an empty        *)
(* remainder repeats the previous one) and no intermediate update is       *)
(* skipped; on a clean end one more invocation passes the returned text    *)
(* without the glyph.                                                      *)
(***************************************************************************)
C5_Amended ==
    LET rs == Remainders(Delivered)
        n == Len(rs)
    IN pc \in {"iter", "done"} /\ transport.code = HTTP_OK =>
        /\ Len(updates) = n + (IF CleanEnd THEN 1 ELSE 0)
        /\ \A i \in 1..n : updates[i] = Flatten(SubSeq(rs, 1, i)) \o Cursor
        /\ \A i \in 1..(n - 1) :
              IsPrefixOf(Flatten(SubSeq(rs, 1, i)), Flatten(SubSeq(rs, 1, i + 1)))
        /\ CleanEnd => updates[n + 1] = ret.text /\ ret.text = Flatten(rs)

C5_Witness ==
    /\ CleanEnd
    /\ Delivered = <<DataA, EmptyData, DataE>>
    /\ updates = <<<<"a">> \o Cursor, <<"a">> \o Cursor,
                   <<"a", EAcute>> \o Cursor, <<"a", EAcute>>>>

(***************************************************************************)
(* C6: whatever the transport does, one call of the streaming consumer     *)
(* ends having executed exactly one return (one outcome), every raised     *)
(* error is caught inside it, it can always take a step until it has       *)
(* returned, and once it has returned no step of it changes the           *)
(* accumulated text.                                                       *)
(***************************************************************************)
C6_OneOutcome ==
    /\ pc \in {"call", "post", "iter", "done"}
    /\ returns = (IF pc = "done" THEN 1 ELSE 0)
    /\ (pc = "done" /\ ret.none => Len(errors) = 1)
    /\ (pc = "done" /\ ~ret.none => errors = <<>> /\ ret.text = result)
    /\ (pc \in {"post", "iter"} => ENABLED Streaming)
    /\ (pc = "done" => ~ENABLED (Streaming /\ result' # result))

C6_Witness ==
    /\ Raised
    /\ transport.end = "raise"
    /\ pos = MaxLines
    /\ returns = 1
    /\ Len(errors) = 1

(***************************************************************************)
(* C7: a frame "data: [ERROR: m]" is consumed like any other fragment: its *)
(* text is appended verbatim after what was accepted before, nothing is    *)
(* reported or returned because of it, and on a clean end the returned     *)
(* string contains it.                                                     *)
(***************************************************************************)
C7_ErrorFrameIsText ==
    /\ [][Processes(ErrorFrameLine) =>
             /\ result' = result \o ErrorText
             /\ updates' = Append(updates, result \o ErrorText \o Cursor)
             /\ pc' = "iter"
             /\ UNCHANGED <<errors, ret, returns>>]_vars
    /\ [](CleanEnd /\ (\E i \in 1..pos : Delivered[i] = ErrorFrameLine) =>
             /\ ~ret.none
             /\ errors = <<>>
             /\ \E k \in 0..Len(ret.text) :
                   SubSeq(ret.text, k + 1, k + Len(ErrorText)) = ErrorText)

C7_Witness ==
    /\ CleanEnd
    /\ Delivered = <<DataA, ErrorFrameLine>>
    /\ ret = Str(<<"a">> \o ErrorText)
    /\ errors = <<>>

(***************************************************************************)
(* The producer as the claims speak of it.                                 *)
(***************************************************************************)
\* The non-empty words among the contents cs, in order.
RECURSIVE NonEmptyWords(_)
NonEmptyWords(cs) ==
    IF cs = <<>> THEN <<>>
    ELSE (IF ~Head(cs).none /\ Head(cs).text # <<>> THEN <<Head(cs).text>> ELSE <<>>)
         \o NonEmptyWords(Tail(cs))

\* Every word the LLM streamed, in order (None counts as empty).
RECURSIVE StreamedText(_)
StreamedText(cs) ==
    IF cs = <<>> THEN <<>>
    ELSE (IF Head(cs).none THEN <<>> ELSE Head(cs).text) \o StreamedText(Tail(cs))

LLMFailed == llm.create = "raise" \/ llm.end = "raise"

(***************************************************************************)
(* C8: stream_ai_response yields one "data: <word>" frame per chunk with   *)
(* non-empty content, in chunk order, and none for empty or missing        *)
(* content; when the LLM stream ends normally the last item is the one     *)
(* blank completion frame; when the LLM call or stream raises the last     *)
(* item is the one "data: [ERROR: <message>]" frame, after the frames      *)
(* already yielded, and no completion frame is yielded.                    *)
(***************************************************************************)
C8_ProducerFrames ==
    LET words == NonEmptyWords(SubSeq(llm.chunks, 1, cidx))
        n == Len(words)
    IN ppc \in {"loop", "done"} =>
        /\ \A i \in 1..n : emitted[i] = DataPrefix \o words[i] \o <<NL, NL>>
        /\ ppc = "loop" => Len(emitted) = n
        /\ ppc = "done" =>
              /\ Len(emitted) = n + 1
              /\ cidx = Len(llm.chunks)
              /\ emitted[n + 1] =
                    (IF LLMFailed
                     THEN DataPrefix \o ErrOpen \o llm.msg \o ErrClose \o <<NL, NL>>
                     ELSE <<NL, NL>>)

C8_Witness ==
    /\ ppc = "done"
    /\ llm.end = "raise"
    /\ llm.chunks = <<Str(<<"a">>), None>>
    /\ emitted = <<DataPrefix \o <<"a", NL, NL>>,
                   DataPrefix \o ErrOpen \o llm.msg \o ErrClose \o <<NL, NL>>>>

(***************************************************************************)
(* C9: when the LLM streams the words w1..wn without failure, framing them *)
(* with stream_ai_response, cutting the byte stream into lines and         *)
(* consuming the lines with query_llm_streaming returns w1+...+wn.         *)
(***************************************************************************)
C9_RoundTrip ==
    (pc = "done" /\ llm.create = "ok" /\ llm.end = "clean") =>
        /\ ~ret.none
        /\ ret.text = StreamedText(llm.chunks)

(***************************************************************************)
(* C10: the chat history.  Every assistant message has non-empty content   *)
(* and directly follows a user message; the history changes only by a      *)
(* clear (to empty), by a submission whose health check passed (the user   *)
(* message is appended before query_llm is called) or by a reply (the      *)
(* non-empty string query_llm returned is appended right after the user    *)
(* message holding the prompt it was called with); a None or empty result  *)
(* leaves that user message last; a submission whose health checks both    *)
(* fail appends nothing; a clear empties the history.                      *)
(***************************************************************************)
C10_History ==
    /\ [](\A i \in 1..Len(messages) :
             messages[i].role = "assistant" =>
                /\ i > 1
                /\ messages[i - 1].role = "user"
                /\ messages[i].content # <<>>)
    /\ [][messages' # messages =>
             \/ event' = "clear" /\ messages' = <<>>
             \/ /\ pc = "idle" /\ pc' = "call"
                /\ backend_healthy' \/ recheck' = "up"
                /\ messages' = Append(messages, UserMessage(prompt'))
             \/ /\ pc = "done" /\ pc' = "idle"
                /\ ~ret.none /\ ret.text # <<>>
                /\ messages[Len(messages)] = UserMessage(prompt)
                /\ messages' = Append(messages, AssistantMessage(ret.text))]_vars
    /\ [][pc = "done" /\ pc' = "idle" =>
             IF ret.none \/ ret.text = <<>>
             THEN messages' = messages /\ messages[Len(messages)] = UserMessage(prompt)
             ELSE messages' = Append(messages, AssistantMessage(ret.text))]_vars
    /\ [][pc = "idle" /\ event' = "submit" =>
             IF ~backend_healthy' /\ recheck' = "down"
             THEN messages' = messages /\ pc' = "idle"
             ELSE messages' = Append(messages, UserMessage(prompt')) /\ pc' = "call"]_vars
    /\ [][pc = "idle" /\ event' = "clear" => messages' = <<>>]_vars

C10_Witness ==
    /\ pc = "idle"
    /\ messages = <<UserMessage(<<"p">>), UserMessage(<<"q">>),
                    AssistantMessage(<<"a", "a">>)>>
    /\ event = "submit"
    /\ ~backend_healthy
    /\ recheck = "up"

====
